---- MODULE Spec2Model ----
(***************************************************************************)
(* Delivery order price calculator: the tiered distance-range fee lookup   *)
(* and the pricing arithmetic of process_total_cost                        *)
(* (services/delivery_cost.py).                                            *)
(*                                                                         *)
(* One request is modelled: its arguments are fixed by Init, and           *)
(* process_total_cost is then called on them once per lookup strategy.     *)
(* Each call leaves behind its return triple (ret) and the values its      *)
(* local variables had when it returned (frame).                           *)
(***************************************************************************)
EXTENDS Integers, Sequences, FiniteSets, TLC

VARIABLES cart_value, distance, order_minimum_no_surcharge,
          base_price_delivery_fee, distance_ranges_dict, ret, frame

vars == <<cart_value, distance, order_minimum_no_surcharge,
          base_price_delivery_fee, distance_ranges_dict, ret, frame>>

args == <<cart_value, distance, order_minimum_no_surcharge,
          base_price_delivery_fee, distance_ranges_dict>>

\* one call of calculate_distance: its arguments and its return triple
VARIABLES user_lat, user_lon, venue_lat, venue_lon, calc_method, dist_ret

distVars == <<user_lat, user_lon, venue_lat, venue_lon, calc_method, dist_ret>>

\* one request to delivery_order_price: the slug, the loaded configuration,
\* the step about to run, the steps run so far, the locals of the function,
\* its return triple and the answer of the HTTP endpoint
VARIABLES venue_slug, config, pc, executed, venue_country, static_api_link,
          dynamic_api_link, static_data, dynamic_data, order_ret, http

orderVars == <<venue_slug, config, pc, executed, venue_country, static_api_link,
               dynamic_api_link, static_data, dynamic_data, order_ret, http>>

allVars == <<vars, distVars, orderVars>>

----------------------------------------------------------------------------
(* Bounds of the model *)

\* largest tier boundary (metres) of a generated schedule
MaxBound == 2

\* largest number of tiers (sentinel included) of a generated schedule
MaxTiers == 3

----------------------------------------------------------------------------
(* Program constants *)

SUCCESS == 200
FAILURE == 400

O_1 == "O_1"
O_n == "O_n"
O_Log_n == "O_Log_n"

\* a method value that is none of the three strategies
OtherMethod == "other"

Methods == {O_n, O_1, O_Log_n, OtherMethod}

Strategies == {O_n, O_1, O_Log_n}

\* the empty dict {}
EmptyDict == [k \in {} |-> 0]

DeliveryErrorText ==
    "Delivery is not possible. Distance is out of delivery range. You should be within"

SuccessText == "Successfully calculated total cost."

UnexpectedErrorText == "An unexpected error occurred: "

KeyErrorText == "Key error while processing distance ranges: "

----------------------------------------------------------------------------
(* Inputs *)

Tier(min, max, a, b) == [min |-> min, max |-> max, a |-> a, b |-> b]

\* (a, b) pairs a tier may carry
FeeParams == {<<0, 0>>, <<2, 3>>}

CartValues == {0, 3}
MinimumValues == {0, 2}
BaseFees == {0, 1}

\* strictly increasing boundaries c[1] < ... < c[k] taken from 1..MaxBound
Cuts(k) == {c \in [1..k -> 1..MaxBound] : \A i \in 1..k : \A j \in 1..k : i < j => c[i] < c[j]}

\* k contiguous finite tiers starting at 0, followed by the max = 0 sentinel
\* when hasSentinel, in ascending order
Contiguous(k, hasSentinel, c, f) ==
    [i \in 1..(k + (IF hasSentinel THEN 1 ELSE 0)) |->
        IF i <= k
        THEN Tier(IF i = 1 THEN 0 ELSE c[i - 1], c[i], f[i][1], f[i][2])
        ELSE Tier(IF k = 0 THEN 0 ELSE c[k], 0, f[i][1], f[i][2])]

AscendingSchedules ==
    UNION { UNION { UNION { { Contiguous(k, s, c, f) :
                                f \in [1..(k + (IF s THEN 1 ELSE 0)) -> FeeParams] } :
                            c \in Cuts(k) } :
                    s \in {h \in BOOLEAN : k + (IF h THEN 1 ELSE 0) <= MaxTiers} } :
            k \in 0..MaxTiers }

\* the tiers of a schedule arrive in any order
Schedules ==
    UNION { { [i \in 1..Len(base) |-> base[p[i]]] : p \in Permutations(1..Len(base)) } :
            base \in AscendingSchedules }

Distances == 0..(MaxBound + 1)

Fields == {"min", "max", "a", "b"}

\* the dict t without the key k
DropField(t, k) == [f \in (DOMAIN t) \ {k} |-> t[f]]

\* schedules that are empty or in which one tier lacks one required field
MalformedSchedules ==
    {<<>>} \cup
    UNION { { [base EXCEPT ![i] = DropField(base[i], k)] :
                i \in 1..Len(base), k \in Fields } :
            base \in AscendingSchedules }

\* the schedule of tests/test_delivery_cost.py
TestSchedule ==
    << Tier(0, 500, 0, 0), Tier(500, 1000, 100, 0), Tier(1000, 1500, 200, 0),
       Tier(1500, 2000, 200, 1), Tier(2000, 0, 0, 0) >>

TestDistances == {0, 500, 1200, 2000, 3000}

----------------------------------------------------------------------------
(* sorted(distance_ranges_dict, key=lambda x: (x['max'] == 0, x['max'])) *)

\* a key that orders by max alone, the sentinel's 0 included
SortKey_MaxOnly(x) == <<0, x.max>>

\* the sort key: (False, max) for a finite tier, (True, 0) for the sentinel
SortKey(x) == <<IF x.max = 0 THEN 1 ELSE 0, x.max>>

\* tuple comparison key1 < key2
KeyLess(k1, k2) == k1[1] < k2[1] \/ (k1[1] = k2[1] /\ k1[2] < k2[2])

\* insert x after the elements whose key is not greater (the sort is stable)
RECURSIVE InsertByKey(_, _)
InsertByKey(s, x) ==
    IF s = <<>> THEN <<x>>
    ELSE IF KeyLess(SortKey(x), SortKey(Head(s)))
         THEN <<x>> \o s
         ELSE <<Head(s)>> \o InsertByKey(Tail(s), x)

RECURSIVE SortFrom(_, _, _)
SortFrom(ranges, i, acc) ==
    IF i > Len(ranges) THEN acc
    ELSE SortFrom(ranges, i + 1, InsertByKey(acc, ranges[i]))

\* the list taken in the order it arrives
SortedRanges_AsGiven(ranges) == ranges

SortedRanges(ranges) == SortFrom(ranges, 1, <<>>)

\* distance_ranges_dict.sort(key=...): the caller's list is sorted in place
CallerList_SortedInPlace(ranges, sorted) == sorted

\* the caller's list after the call: sorted() builds a new list and the
\* assignment rebinds the parameter, so the list passed in is left as it was
CallerList(ranges, sorted) == ranges

----------------------------------------------------------------------------
(* The three lookups.  Each yields [failure, index]: failure when the      *)
(* branch returns FAILURE, index the position (1-based, in the sorted      *)
(* list) of the tier a and b are read from, 0 when none is read.           *)

\* a loop that reports out-of-range when it runs off the end of the list
RECURSIVE LinearScan_FailsAtEnd(_, _, _)
LinearScan_FailsAtEnd(ranges, d, i) ==
    IF i > Len(ranges) THEN [failure |-> TRUE, index |-> 0]
    ELSE IF ranges[i].max = 0 THEN [failure |-> TRUE, index |-> 0]
    ELSE IF d - ranges[i].max <= 0 THEN [failure |-> FALSE, index |-> i]
    ELSE LinearScan_FailsAtEnd(ranges, d, i + 1)

\* method == O_n: the for loop over the sorted list
RECURSIVE LinearScan(_, _, _)
LinearScan(ranges, d, i) ==
    IF i > Len(ranges) THEN [failure |-> FALSE, index |-> 0]
    ELSE IF ranges[i].max = 0 THEN [failure |-> TRUE, index |-> 0]
    ELSE IF d - ranges[i].max <= 0 THEN [failure |-> FALSE, index |-> i]
    ELSE LinearScan(ranges, d, i + 1)

\* max(r['max'] for r in distance_ranges_dict)
RECURSIVE MaxOfMax(_, _)
MaxOfMax(ranges, i) ==
    IF i = Len(ranges) THEN ranges[i].max
    ELSE LET rest == MaxOfMax(ranges, i + 1)
         IN  IF ranges[i].max > rest THEN ranges[i].max ELSE rest

\* the two nested for loops filling lookup_table; 0 stands for None
RECURSIVE FillTable(_, _, _)
FillTable(table, ranges, i) ==
    IF i > Len(ranges) THEN table
    ELSE FillTable([d \in DOMAIN table |->
                        IF ranges[i].min <= d /\ d <= ranges[i].max THEN i ELSE table[d]],
                   ranges, i + 1)

\* method == O_1
TableLookup(ranges, d) ==
    LET max_distance == MaxOfMax(ranges, 1)
        lookup_table == FillTable([e \in 0..max_distance |-> 0], ranges, 1)
        dist_range   == IF d <= max_distance THEN lookup_table[d] ELSE 0
    IN  IF dist_range = 0 THEN [failure |-> TRUE, index |-> 0]
        ELSE [failure |-> FALSE, index |-> dist_range]

\* bisect.bisect_right(a, x): lo and hi are 0-based, a is 1-based here
RECURSIVE BisectLoop(_, _, _, _)
BisectLoop(a, x, lo, hi) ==
    IF lo < hi
    THEN LET mid == (lo + hi) \div 2
         IN  IF x < a[mid + 1] THEN BisectLoop(a, x, lo, mid)
             ELSE BisectLoop(a, x, mid + 1, hi)
    ELSE lo

bisect_right(a, x) == BisectLoop(a, x, 0, Len(a))

\* s[i] of a Python list, i 0-based, a negative i counting from the end
PyIndex(s, i) == IF i < 0 THEN Len(s) + i + 1 ELSE i + 1

\* method == O_Log_n
BinaryLookup(ranges, d) ==
    LET max_values == [i \in 1..Len(ranges) |-> ranges[i].max]
        index      == bisect_right(max_values, d)
    IN  IF index = Len(max_values) THEN [failure |-> TRUE, index |-> 0]
        ELSE [failure |-> FALSE, index |-> PyIndex(ranges, index - 1)]

\* a chain whose last branch is an else: any other value is looked up as
\* O_Log_n is
Lookup_ElseBinary(ranges, d, method) ==
    IF method = O_n THEN LinearScan(ranges, d, 1)
    ELSE IF method = O_1 THEN TableLookup(ranges, d)
    ELSE BinaryLookup(ranges, d)

\* the if / elif chain on method; no branch is taken for any other value
Lookup(ranges, d, method) ==
    IF method = O_n THEN LinearScan(ranges, d, 1)
    ELSE IF method = O_1 THEN TableLookup(ranges, d)
    ELSE IF method = O_Log_n THEN BinaryLookup(ranges, d)
    ELSE [failure |-> FALSE, index |-> 0]

----------------------------------------------------------------------------
(* Pricing.  Amounts that pass through the division by 10 are kept in      *)
(* tenths, so that a + (b * distance) / 10 + base is exact; int() drops    *)
(* the fraction, towards zero.                                             *)

\* the difference without the clamp at 0
Max0_NoClamp(x) == x

\* max(0, x)
Max0(x) == IF x > 0 THEN x ELSE 0

\* rounding to the nearest integer instead
IntOfTenths_Rounded(x10) == (x10 + 5) \div 10

\* int(x) for x given in tenths
IntOfTenths(x10) == IF x10 >= 0 THEN x10 \div 10 ELSE -((-x10) \div 10)

\* a total that leaves the surcharge out
EndpointResponse_NoSurcharge(cart, d, minimum, base, a, b) ==
    LET small_order_surcharge == Max0(minimum - cart)
        delivery_fee10        == 10 * a + b * d + 10 * base
        total_price10         == 10 * cart + delivery_fee10
    IN  [ total_price           |-> IntOfTenths(total_price10),
          small_order_surcharge |-> small_order_surcharge,
          cart_value            |-> cart,
          delivery              |-> [fee |-> IntOfTenths(delivery_fee10), distance |-> d] ]

\* a total from which the fee is subtracted
EndpointResponse_FeeSubtracted(cart, d, minimum, base, a, b) ==
    LET small_order_surcharge == Max0(minimum - cart)
        delivery_fee10        == 10 * a + b * d + 10 * base
        total_price10         == 10 * cart + 10 * small_order_surcharge - delivery_fee10
    IN  [ total_price           |-> IntOfTenths(total_price10),
          small_order_surcharge |-> small_order_surcharge,
          cart_value            |-> cart,
          delivery              |-> [fee |-> IntOfTenths(delivery_fee10), distance |-> d] ]

\* a fee field rounded to the nearest integer, round(delivery_fee)
EndpointResponse_FeeRounded(cart, d, minimum, base, a, b) ==
    LET small_order_surcharge == Max0(minimum - cart)
        delivery_fee10        == 10 * a + b * d + 10 * base
        total_price10         == 10 * cart + 10 * small_order_surcharge + delivery_fee10
    IN  [ total_price           |-> IntOfTenths(total_price10),
          small_order_surcharge |-> small_order_surcharge,
          cart_value            |-> cart,
          delivery              |-> [fee |-> (delivery_fee10 + 5) \div 10, distance |-> d] ]

\* the response dict of a successful call
EndpointResponse(cart, d, minimum, base, a, b) ==
    LET small_order_surcharge == Max0(minimum - cart)
        delivery_fee10        == 10 * a + b * d + 10 * base
        total_price10         == 10 * cart + 10 * small_order_surcharge + delivery_fee10
    IN  [ total_price           |-> IntOfTenths(total_price10),
          small_order_surcharge |-> small_order_surcharge,
          cart_value            |-> cart,
          delivery              |-> [fee |-> IntOfTenths(delivery_fee10), distance |-> d] ]

Message(text, within, exc) == [text |-> text, within |-> within, exc |-> exc]

Return(response, status, message, sorted, a, b, index) ==
    [ ret   |-> [response |-> response, status |-> status, message |-> message],
      frame |-> [distance_ranges_dict |-> sorted, a |-> a, b |-> b, index |-> index] ]

\* the dict t has the key k
HasKey(t, k) == k \in DOMAIN t

\* the key whose read raises KeyError in a = r["a"]; b = r["b"], "" if none
MissingAB(t) ==
    IF ~HasKey(t, "a") THEN "a" ELSE IF ~HasKey(t, "b") THEN "b" ELSE ""

\* the first KeyError of the loops that fill lookup_table, "" if none:
\* r['min'] is read for every tier, r['a'] and r['b'] when its range is
\* not empty
RECURSIVE TableKeyError(_, _)
TableKeyError(ranges, i) ==
    IF i > Len(ranges) THEN ""
    ELSE IF ~HasKey(ranges[i], "min") THEN "min"
    ELSE IF ranges[i].min <= ranges[i].max /\ MissingAB(ranges[i]) # ""
         THEN MissingAB(ranges[i])
    ELSE TableKeyError(ranges, i + 1)

\* the key of the KeyError the branch of method raises on a list in which
\* every tier has 'max', "" if it raises none
LookupKeyError(ranges, d, method) ==
    IF method = O_1 THEN TableKeyError(ranges, 1)
    ELSE IF method \in {O_n, O_Log_n}
         THEN LET found == Lookup(ranges, d, method)
              IN  IF found.failure \/ found.index = 0 THEN ""
                  ELSE MissingAB(ranges[found.index])
    ELSE ""

\* a message built from the last tier, distance_ranges_dict[-1]
SecondToLastRaises_LastRead(sorted) == Len(sorted) < 1

\* distance_ranges_dict[-2] raises IndexError
SecondToLastRaises(sorted) == Len(sorted) < 2

\* the max the message quotes, read once the index is known to exist
QuotedMax(sorted) == IF Len(sorted) < 2 THEN 0 ELSE sorted[Len(sorted) - 1].max

\* process_total_cost: the return triple and the locals at the return
process_total_cost(cart, d, minimum, base, ranges, method) ==
    IF \E i \in DOMAIN ranges : ~HasKey(ranges[i], "max")
    THEN \* the sort key raises KeyError: except KeyError
         Return(EmptyDict, FAILURE, Message(KeyErrorText, 0, "max"), ranges, 0, 0, 0)
    ELSE
    LET sorted == SortedRanges(ranges)
    IN  IF SecondToLastRaises(sorted)
        THEN \* except Exception
             Return(EmptyDict, FAILURE,
                    Message(UnexpectedErrorText, 0, "list index out of range"),
                    sorted, 0, 0, 0)
        ELSE IF LookupKeyError(sorted, d, method) # ""
        THEN \* except KeyError
             Return(EmptyDict, FAILURE,
                    Message(KeyErrorText, 0, LookupKeyError(sorted, d, method)),
                    sorted, 0, 0, 0)
        ELSE LET delivery_error == Message(DeliveryErrorText, QuotedMax(sorted), "")
                 found == Lookup(sorted, d, method)
                 a == IF found.index = 0 THEN 0 ELSE sorted[found.index].a
                 b == IF found.index = 0 THEN 0 ELSE sorted[found.index].b
             IN  IF found.failure
                 THEN Return(EmptyDict, FAILURE, delivery_error, sorted, 0, 0, 0)
                 ELSE Return(EndpointResponse(cart, d, minimum, base, a, b), SUCCESS,
                             Message(SuccessText, 0, ""), sorted, a, b, found.index)

----------------------------------------------------------------------------
(* calculate_distance (services/distance_calculator.py).                   *)
(*                                                                         *)
(* A coordinate is a number of thousandths of a degree, or a value that    *)
(* is not a number.  The coordinates drawn lie within a few thousandths    *)
(* of a degree of 0 N 0 E, where cos(latitude) is 1 to nine digits and the *)
(* great-circle formula agrees with its small-angle form                   *)
(* R * sqrt(dlat^2 + cos(lat1) * cos(lat2) * dlon^2) to less than a        *)
(* centimetre; the distances are far from a rounding boundary, so both     *)
(* methods are computed exactly, in integers.                              *)

SIMPLE == 0
HAVERSINE == 1

\* the method value of tests/test_distance_calculator.py that is neither
InvalidMethod == 999

CalcMethods == {SIMPLE, HAVERSINE, InvalidMethod}

Number(n) == [numeric |-> TRUE, mdeg |-> n]

\* a str such as "invalid_lat"
NotANumber == [numeric |-> FALSE, mdeg |-> 0]

Latitudes == {Number(0), Number(1), NotANumber}

Longitudes == {Number(0), Number(1), NotANumber}

\* centimetres per thousandth of a degree: km_per_degree_lat = 111.32
CmPerMdegSimple == 11132

\* the same for R = 6371 * 1000: R * pi / 180 is 111194.9 m per degree
CmPerMdegHaversine == 11119

\* the largest distance, in metres, the rounding searches
MaxMetres == 400

\* round(sqrt(n) / 100) for n in square centimetres
RoundedRootMetres(n) ==
    CHOOSE r \in 0..MaxMetres :
        /\ (r = 0 \/ (100 * r - 50) * (100 * r - 50) <= n)
        /\ n < (100 * r + 50) * (100 * r + 50)

\* a sum of the two coordinates where their difference is meant
DeltaMdeg_Sum(v, u) == v.mdeg + u.mdeg

\* delta = venue - user, in thousandths of a degree
DeltaMdeg(v, u) == v.mdeg - u.mdeg

\* round(k * sqrt(delta_lat^2 + delta_lon^2)) metres, k in centimetres per
\* thousandth of a degree
RoundedDistance(k, delta_lat, delta_lon) ==
    RoundedRootMetres(k * k * (delta_lat * delta_lat + delta_lon * delta_lon))

DistReturn(d, status, text, raised) ==
    [distance |-> d, status |-> status, message |-> text, raised |-> raised]

HaversineText == "Distance calculated using Haversine formula."
SimpleText == "Distance calculated using the simple Pythagorean theorem."
InvalidMethodText == "Invalid calculation method: "
CalcErrorText == "An error occurred during distance calculation: "

\* a body without try / except: the TypeError reaches the caller
CalcError_Propagates == DistReturn(0, 0, "", TRUE)

\* except Exception: the error is reported in the return triple
CalcError == DistReturn(0, FAILURE, CalcErrorText, FALSE)

NonNumeric(ulat, ulon, vlat, vlon) == \E c \in {ulat, ulon, vlat, vlon} : ~c.numeric

\* the branch of method == SIMPLE
SimpleBranch(ulat, ulon, vlat, vlon) ==
    IF NonNumeric(ulat, ulon, vlat, vlon)
    THEN \* str - float raises TypeError
         CalcError
    ELSE DistReturn(RoundedDistance(CmPerMdegSimple, DeltaMdeg(vlat, ulat), DeltaMdeg(vlon, ulon)),
                    SUCCESS, SimpleText, FALSE)

\* the branch of method == HAVERSINE
HaversineBranch(ulat, ulon, vlat, vlon) ==
    IF NonNumeric(ulat, ulon, vlat, vlon)
    THEN \* math.radians(str) raises TypeError
         CalcError
    ELSE DistReturn(RoundedDistance(CmPerMdegHaversine, DeltaMdeg(vlat, ulat), DeltaMdeg(vlon, ulon)),
                    SUCCESS, HaversineText, FALSE)

\* an else branch that falls back to the simple method
InvalidMethodBranch_Fallback(ulat, ulon, vlat, vlon) == SimpleBranch(ulat, ulon, vlat, vlon)

\* the else branch: neither method, no coordinate is read
InvalidMethodBranch(ulat, ulon, vlat, vlon) == DistReturn(0, FAILURE, InvalidMethodText, FALSE)

\* calculate_distance: the return triple, and whether an exception escapes
calculate_distance(ulat, ulon, vlat, vlon, m) ==
    IF m = HAVERSINE THEN HaversineBranch(ulat, ulon, vlat, vlon)
    ELSE IF m = SIMPLE THEN SimpleBranch(ulat, ulon, vlat, vlon)
    ELSE InvalidMethodBranch(ulat, ulon, vlat, vlon)

NoDistReturn == DistReturn(0, 0, "", FALSE)

\* no call of calculate_distance is made
IdleDistance ==
    /\ user_lat = Number(0)
    /\ user_lon = Number(0)
    /\ venue_lat = Number(0)
    /\ venue_lon = Number(0)
    /\ calc_method = SIMPLE
    /\ dist_ret = NoDistReturn

----------------------------------------------------------------------------
(* validate_inputs (utils/validator.py) *)

InvalidSlugText == "Invalid venue_slug: It must be a non-empty string."
InvalidCartText == "Invalid cart value: It must be a non-negative integer."
InvalidLatitudeText == "Invalid latitude: "
InvalidLongitudeText == "Invalid longitude: "

Validation(status, text, raised) == [status |-> status, message |-> text, raised |-> raised]

\* validate_inputs: the slug, then the cart value, then the latitude, then
\* the longitude; a comparison of a str with -90 raises TypeError
validate_inputs(slug, cart, lat, lon) ==
    IF slug = <<>> THEN Validation(FAILURE, InvalidSlugText, FALSE)
    ELSE IF cart < 0 THEN Validation(FAILURE, InvalidCartText, FALSE)
    ELSE IF ~lat.numeric THEN Validation(0, "TypeError", TRUE)
    ELSE IF ~(-90000 <= lat.mdeg /\ lat.mdeg <= 90000)
         THEN Validation(FAILURE, InvalidLatitudeText, FALSE)
    ELSE IF ~lon.numeric THEN Validation(0, "TypeError", TRUE)
    ELSE IF ~(-180000 <= lon.mdeg /\ lon.mdeg <= 180000)
         THEN Validation(FAILURE, InvalidLongitudeText, FALSE)
    ELSE Validation(SUCCESS, "", FALSE)

----------------------------------------------------------------------------
(* services/venue_processor.py and services/api_client.py.  A slug is the  *)
(* sequence of its "-"-separated segments, <<>> being the empty string.    *)

\* venue_slug.split("-")[-1]
LastSegment(slug) == IF slug = <<>> THEN "" ELSE slug[Len(slug)]

\* str.lower on the names drawn
Lower(city) == IF city = "Berlin" THEN "berlin" ELSE city

InvalidCityText == "Invalid venue city extracted from slug: "
ExtractedCountryText == "Extracted country code "
InvalidCountryText == "Invalid venue country code: "
RetrievedLinksText == "Retrieved API links for country code "

\* process_venue_slug
process_venue_slug(slug, cities) ==
    LET venue_city == LastSegment(slug)
    IN  IF Lower(venue_city) \notin DOMAIN cities
        THEN [venue_country |-> "", status |-> FAILURE, message |-> InvalidCityText]
        ELSE [venue_country |-> cities[Lower(venue_city)], status |-> SUCCESS,
              message |-> ExtractedCountryText]

\* location_api_link_return
location_api_link_return(country, apis) ==
    IF country \notin DOMAIN apis
    THEN [static |-> "", dynamic |-> "", status |-> FAILURE, message |-> InvalidCountryText]
    ELSE [static |-> apis[country].static, dynamic |-> apis[country].dynamic,
          status |-> SUCCESS, message |-> RetrievedLinksText]

\* the messages of the three failures: a status other than 200, a timeout
\* after 10 seconds, any other RequestException
RequestFailedTexts ==
    {"Request failed with status code: ", "Request timed out", "Request error: "}

\* a failure that hands back the body it did receive
get_request_KeepsBody(bodies) ==
    {[data |-> b, status |-> SUCCESS, message |-> "Request successful"] : b \in bodies}
    \cup {[data |-> b, status |-> FAILURE, message |-> m] :
              b \in bodies, m \in RequestFailedTexts}

\* get_request: the outcomes of one GET whose JSON body, on status 200, is
\* one of bodies
get_request(bodies) ==
    {[data |-> b, status |-> SUCCESS, message |-> "Request successful"] : b \in bodies}
    \cup {[data |-> EmptyDict, status |-> FAILURE, message |-> m] : m \in RequestFailedTexts}

StaticKeyErrorText == "Key error while accessing static data: "
StaticExtractedText == "Successfully extracted coordinates from static data."

\* extract_static_coordinates: coordinates is [lon, lat]
extract_static_coordinates(data) ==
    IF ~HasKey(data, "venue_raw") \/ ~HasKey(data.venue_raw, "location")
       \/ ~HasKey(data.venue_raw.location, "coordinates")
    THEN [lon |-> Number(0), lat |-> Number(0), status |-> FAILURE, message |-> StaticKeyErrorText]
    ELSE [lon |-> data.venue_raw.location.coordinates[1],
          lat |-> data.venue_raw.location.coordinates[2],
          status |-> SUCCESS, message |-> StaticExtractedText]

SpecsKeyErrorText == "Key error while accessing delivery specifications: "
SpecsExtractedText == "Successfully extracted delivery specifications from dynamic data."

SpecsFailure ==
    [order_minimum_no_surcharge |-> 0, base_price |-> 0, distance_ranges |-> <<>>,
     status |-> FAILURE, message |-> SpecsKeyErrorText]

\* extract_delivery_specs
extract_delivery_specs(data) ==
    IF ~HasKey(data, "venue_raw") \/ ~HasKey(data.venue_raw, "delivery_specs")
    THEN SpecsFailure
    ELSE LET specs == data.venue_raw.delivery_specs
         IN  IF ~HasKey(specs, "order_minimum_no_surcharge") \/ ~HasKey(specs, "delivery_pricing")
             THEN SpecsFailure
             ELSE IF ~HasKey(specs.delivery_pricing, "base_price")
                     \/ ~HasKey(specs.delivery_pricing, "distance_ranges")
             THEN SpecsFailure
             ELSE [order_minimum_no_surcharge |-> specs.order_minimum_no_surcharge,
                   base_price |-> specs.delivery_pricing.base_price,
                   distance_ranges |-> specs.delivery_pricing.distance_ranges,
                   status |-> SUCCESS, message |-> SpecsExtractedText]

----------------------------------------------------------------------------
(* delivery_order_price (services/delivery_cost.py) and the endpoint       *)
(* get_delivery_order_price (app.py): inputs, return values, idle state    *)

Slugs == { <<>>, <<"home", "assignment", "venue", "berlin">>, <<"venue", "Berlin">>,
           <<"invalid", "venue">>, <<"venue", "paris">> }

\* a negative cart value is rejected as a value that is not an int is
OrderCartValues == {-1, 800}

UserLatitudes == {Number(0), Number(91000), NotANumber}

UserLongitudes == {Number(0), Number(181000)}

\* cities_acronym of config/config.yaml: the one city the tests name, and
\* a configuration with a city whose country has no API links
Cities == { "berlin" :> "DE", ("berlin" :> "DE") @@ ("paris" :> "FR") }

\* countries_api of config/config.yaml
Apis == "DE" :> [static |-> "berlin/static", dynamic |-> "berlin/dynamic"]

\* the loaded configuration; METHOD_RANGE_PARSING is the default method of
\* process_total_cost
Configs ==
    {[cities_acronym |-> c, countries_api |-> Apis, METHOD_RANGE_PARSING |-> m] :
        c \in Cities, m \in Methods}

NoConfig == [cities_acronym |-> <<>>, countries_api |-> <<>>, METHOD_RANGE_PARSING |-> ""]

StaticBody(lon, lat) == [venue_raw |-> [location |-> [coordinates |-> <<lon, lat>>]]]

\* venues 111 m and 157 m from the user at (0, 0), a venue whose longitude
\* is a str, and a body without venue_raw
StaticBodies ==
    { StaticBody(Number(1), Number(0)), StaticBody(Number(1), Number(1)),
      StaticBody(NotANumber, Number(0)), EmptyDict }

DynamicBody(minimum, base, ranges) ==
    [venue_raw |-> [delivery_specs |->
        [order_minimum_no_surcharge |-> minimum,
         delivery_pricing |-> [base_price |-> base, distance_ranges |-> ranges]]]]

\* delivery up to 150 m
OrderSchedule == << Tier(0, 100, 0, 0), Tier(100, 150, 100, 1), Tier(150, 0, 0, 0) >>

\* a schedule with a tier without max, and a body without venue_raw
DynamicBodies ==
    { DynamicBody(1000, 190, OrderSchedule),
      DynamicBody(1000, 190, << DropField(Tier(0, 100, 0, 0), "max"), Tier(100, 0, 0, 0) >>),
      EmptyDict }

\* the steps of delivery_order_price, in the order of the code
StepOrder ==
    << "validate", "slug", "links", "static", "dynamic", "coordinates", "specs",
       "distance", "cost" >>

SlugLabel == "Failed to process venue slug: "
LinksLabel == "Failed to retrieve API links: "
StaticLabel == "Failed to fetch static data: "
DynamicLabel == "Failed to fetch dynamic data: "
CoordinatesLabel == "Failed to extract venue coordinates: "
SpecsLabel == "Failed to extract delivery specifications: "
DistanceLabel == "Failed to calculate distance: "
CostLabel == "Failed to calculate total cost: "
OrderSuccessText == "Successfully calculated delivery order price."

\* f"{label}{message}"
OrderMessage(label, detail) == [label |-> label, detail |-> detail]

\* a failure return that keeps a field of the breakdown
OrderFailure_Partial(label, detail) ==
    [response |-> [total_price |-> 0], status |-> FAILURE, message |-> OrderMessage(label, detail)]

\* return {}, FAILURE, f"{label}{message}"
OrderFailure(label, detail) ==
    [response |-> EmptyDict, status |-> FAILURE, message |-> OrderMessage(label, detail)]

\* return endpoint_response, SUCCESS, "Successfully calculated ..."
OrderSuccess(response) ==
    [response |-> response, status |-> SUCCESS, message |-> OrderMessage("", OrderSuccessText)]

NoOrderReturn == [response |-> EmptyDict, status |-> 0, message |-> OrderMessage("", "")]

\* a function that goes on to the following step whatever the status
AfterStep_Continues(status, following) == following

\* if success_code == FAILURE: return ...
AfterStep(status, following) == IF status = FAILURE THEN "returned" ELSE following

\* one executed step and the status it reported (0: it raised)
Ran(step, status) == [step |-> step, status |-> status]

HTTPException(status_code, detail) == [status_code |-> status_code, detail |-> detail]

NoAnswer == HTTPException(0, "")

\* the body of get_delivery_order_price: the HTTPException raised in the
\* try block is an Exception, so the except clause catches it and raises
\* the 500 one in its place
get_delivery_order_price(r) ==
    IF r.status = SUCCESS
    THEN [status_code |-> 200, detail |-> r.response]
    ELSE LET e == HTTPException(FAILURE, r.message)
         IN  HTTPException(500, [text |-> UnexpectedErrorText, exc |-> e])

\* no request is made to delivery_order_price
IdleOrder ==
    /\ venue_slug = <<>>
    /\ config = NoConfig
    /\ pc = "idle"
    /\ executed = <<>>
    /\ venue_country = ""
    /\ static_api_link = ""
    /\ dynamic_api_link = ""
    /\ static_data = EmptyDict
    /\ dynamic_data = EmptyDict
    /\ order_ret = NoOrderReturn
    /\ http = NoAnswer

----------------------------------------------------------------------------
(* The state machine *)

NotReturned == [response |-> EmptyDict, status |-> 0, message |-> Message("", 0, "")]

NoFrame == [distance_ranges_dict |-> <<>>, a |-> 0, b |-> 0, index |-> 0]

Returned(m) == ret[m].status # 0

\* a request with a generated schedule
InitGenerated ==
    /\ distance_ranges_dict \in Schedules
    /\ distance \in Distances
    /\ cart_value \in CartValues
    /\ order_minimum_no_surcharge \in MinimumValues
    /\ base_price_delivery_fee \in BaseFees

\* the requests of tests/test_delivery_cost.py, at more distances
InitTest ==
    /\ distance_ranges_dict = TestSchedule
    /\ distance \in TestDistances
    /\ cart_value = 1500
    /\ order_minimum_no_surcharge = 1000
    /\ base_price_delivery_fee = 500

\* a request whose schedule is empty or lacks a field
InitMalformed ==
    /\ distance_ranges_dict \in MalformedSchedules
    /\ distance \in Distances
    /\ cart_value = 1500
    /\ order_minimum_no_surcharge = 1000
    /\ base_price_delivery_fee = 500
    /\ ret = [m \in Methods |-> NotReturned]
    /\ frame = [m \in Methods |-> NoFrame]
    /\ IdleDistance
    /\ IdleOrder

\* cart values and minimums of either sign: the function checks neither
SignedCartValues == {-3, 0, 3}

SignedMinimumValues == {-5, 0, 2}

\* a request to process_total_cost itself, on a schedule in ascending order
InitSigned ==
    /\ distance_ranges_dict \in {s \in AscendingSchedules : Len(s) = 2}
    /\ distance \in Distances
    /\ cart_value \in SignedCartValues
    /\ order_minimum_no_surcharge \in SignedMinimumValues
    /\ base_price_delivery_fee \in BaseFees
    /\ ret = [m \in Methods |-> NotReturned]
    /\ frame = [m \in Methods |-> NoFrame]
    /\ IdleDistance
    /\ IdleOrder

Init ==
    /\ InitGenerated \/ InitTest
    /\ ret = [m \in Methods |-> NotReturned]
    /\ frame = [m \in Methods |-> NoFrame]
    /\ IdleDistance
    /\ IdleOrder

\* one call process_total_cost(..., method = m) on the request's arguments
Call(m) ==
    /\ ~Returned(m)
    /\ LET r == process_total_cost(cart_value, distance, order_minimum_no_surcharge,
                                   base_price_delivery_fee, distance_ranges_dict, m)
       IN  /\ ret' = [ret EXCEPT ![m] = r.ret]
           /\ frame' = [frame EXCEPT ![m] = r.frame]
           /\ distance_ranges_dict' =
                  CallerList(distance_ranges_dict, r.frame.distance_ranges_dict)
    /\ UNCHANGED <<cart_value, distance, order_minimum_no_surcharge,
                   base_price_delivery_fee, distVars, orderVars>>

Next == \E m \in Methods : Call(m)

\* calls of process_total_cost on one request
Spec == Init /\ [][Next]_allVars

\* the same on a malformed schedule
SpecMalformed == InitMalformed /\ [][Next]_allVars

\* the same with cart values and minimums of either sign
SpecSigned == InitSigned /\ [][Next]_allVars

\* no call of process_total_cost is made
IdleCost ==
    /\ cart_value = 0
    /\ distance = 0
    /\ order_minimum_no_surcharge = 0
    /\ base_price_delivery_fee = 0
    /\ distance_ranges_dict = <<>>
    /\ ret = [m \in Methods |-> NotReturned]
    /\ frame = [m \in Methods |-> NoFrame]

InitDistance ==
    /\ user_lat \in Latitudes
    /\ venue_lat \in Latitudes
    /\ user_lon \in Longitudes
    /\ venue_lon \in Longitudes
    /\ calc_method \in CalcMethods
    /\ dist_ret = NoDistReturn
    /\ IdleCost
    /\ IdleOrder

\* the call calculate_distance(user_lat, user_lon, venue_lat, venue_lon, calc_method)
CalculateDistance ==
    /\ dist_ret = NoDistReturn
    /\ dist_ret' = calculate_distance(user_lat, user_lon, venue_lat, venue_lon, calc_method)
    /\ UNCHANGED <<user_lat, user_lon, venue_lat, venue_lon, calc_method, vars, orderVars>>

NextDistance == CalculateDistance

\* one call of calculate_distance
SpecDistance == InitDistance /\ [][NextDistance]_allVars

----------------------------------------------------------------------------
(* One request: delivery_order_price step by step, then the endpoint *)

InitOrder ==
    /\ venue_slug \in Slugs
    /\ cart_value \in OrderCartValues
    /\ user_lat \in UserLatitudes
    /\ user_lon \in UserLongitudes
    /\ config \in Configs
    /\ pc = "validate"
    /\ executed = <<>>
    /\ venue_country = ""
    /\ static_api_link = ""
    /\ dynamic_api_link = ""
    /\ static_data = EmptyDict
    /\ dynamic_data = EmptyDict
    /\ order_ret = NoOrderReturn
    /\ http = NoAnswer
    /\ venue_lat = Number(0)
    /\ venue_lon = Number(0)
    /\ calc_method = SIMPLE
    /\ dist_ret = NoDistReturn
    /\ distance = 0
    /\ order_minimum_no_surcharge = 0
    /\ base_price_delivery_fee = 0
    /\ distance_ranges_dict = <<>>
    /\ ret = [m \in Methods |-> NotReturned]
    /\ frame = [m \in Methods |-> NoFrame]

\* the arguments of the request and the configuration
request == <<venue_slug, cart_value, user_lat, user_lon, calc_method, config>>

\* what the two fetches store
fetched == <<static_api_link, dynamic_api_link, static_data, dynamic_data>>

\* what extract_delivery_specs stores
specs == <<order_minimum_no_surcharge, base_price_delivery_fee, distance_ranges_dict>>

\* the return of a step: the early return on FAILURE, none otherwise
StepReturn(status, label, message) ==
    IF status = FAILURE THEN OrderFailure(label, message) ELSE order_ret

\* pre processing: validate_inputs; an exception it raises is caught by
\* the except clause of delivery_order_price
ValidateInputs ==
    /\ pc = "validate"
    /\ LET v == validate_inputs(venue_slug, cart_value, user_lat, user_lon)
       IN  /\ executed' = Append(executed, Ran("validate", v.status))
           /\ IF v.raised
              THEN /\ order_ret' = OrderFailure(UnexpectedErrorText, v.message)
                   /\ pc' = "returned"
              ELSE /\ order_ret' = StepReturn(v.status, "", v.message)
                   /\ pc' = AfterStep(v.status, "slug")
    /\ UNCHANGED <<request, fetched, specs, venue_lat, venue_lon, venue_country,
                   distance, dist_ret, ret, frame, http>>

\* Step 1: process_venue_slug
Step1_VenueSlug ==
    /\ pc = "slug"
    /\ LET r == process_venue_slug(venue_slug, config.cities_acronym)
       IN  /\ venue_country' = r.venue_country
           /\ executed' = Append(executed, Ran("slug", r.status))
           /\ order_ret' = StepReturn(r.status, SlugLabel, r.message)
           /\ pc' = AfterStep(r.status, "links")
    /\ UNCHANGED <<request, fetched, specs, venue_lat, venue_lon,
                   distance, dist_ret, ret, frame, http>>

\* Step 2: location_api_link_return
Step2_ApiLinks ==
    /\ pc = "links"
    /\ LET r == location_api_link_return(venue_country, config.countries_api)
       IN  /\ static_api_link' = r.static
           /\ dynamic_api_link' = r.dynamic
           /\ executed' = Append(executed, Ran("links", r.status))
           /\ order_ret' = StepReturn(r.status, LinksLabel, r.message)
           /\ pc' = AfterStep(r.status, "static")
    /\ UNCHANGED <<request, static_data, dynamic_data, specs, venue_lat, venue_lon,
                   venue_country, distance, dist_ret, ret, frame, http>>

\* Step 3: get_request(static_api_link)
Step3_FetchStatic ==
    /\ pc = "static"
    /\ \E r \in get_request(StaticBodies) :
           /\ static_data' = r.data
           /\ executed' = Append(executed, Ran("static", r.status))
           /\ order_ret' = StepReturn(r.status, StaticLabel, r.message)
           /\ pc' = AfterStep(r.status, "dynamic")
    /\ UNCHANGED <<request, static_api_link, dynamic_api_link, dynamic_data, specs,
                   venue_lat, venue_lon, venue_country, distance, dist_ret, ret, frame, http>>

\* Step 4: get_request(dynamic_api_link)
Step4_FetchDynamic ==
    /\ pc = "dynamic"
    /\ \E r \in get_request(DynamicBodies) :
           /\ dynamic_data' = r.data
           /\ executed' = Append(executed, Ran("dynamic", r.status))
           /\ order_ret' = StepReturn(r.status, DynamicLabel, r.message)
           /\ pc' = AfterStep(r.status, "coordinates")
    /\ UNCHANGED <<request, static_api_link, dynamic_api_link, static_data, specs,
                   venue_lat, venue_lon, venue_country, distance, dist_ret, ret, frame, http>>

\* Step 5: extract_static_coordinates
Step5_Coordinates ==
    /\ pc = "coordinates"
    /\ LET r == extract_static_coordinates(static_data)
       IN  /\ venue_lon' = r.lon
           /\ venue_lat' = r.lat
           /\ executed' = Append(executed, Ran("coordinates", r.status))
           /\ order_ret' = StepReturn(r.status, CoordinatesLabel, r.message)
           /\ pc' = AfterStep(r.status, "specs")
    /\ UNCHANGED <<request, fetched, specs, venue_country, distance, dist_ret, ret, frame, http>>

\* Step 6: extract_delivery_specs
Step6_DeliverySpecs ==
    /\ pc = "specs"
    /\ LET r == extract_delivery_specs(dynamic_data)
       IN  /\ order_minimum_no_surcharge' = r.order_minimum_no_surcharge
           /\ base_price_delivery_fee' = r.base_price
           /\ distance_ranges_dict' = r.distance_ranges
           /\ executed' = Append(executed, Ran("specs", r.status))
           /\ order_ret' = StepReturn(r.status, SpecsLabel, r.message)
           /\ pc' = AfterStep(r.status, "distance")
    /\ UNCHANGED <<request, fetched, venue_lat, venue_lon, venue_country,
                   distance, dist_ret, ret, frame, http>>

\* Step 7: calculate_distance, with its default method
Step7_Distance ==
    /\ pc = "distance"
    /\ LET r == calculate_distance(user_lat, user_lon, venue_lat, venue_lon, calc_method)
       IN  /\ distance' = r.distance
           /\ dist_ret' = r
           /\ executed' = Append(executed, Ran("distance", r.status))
           /\ order_ret' = StepReturn(r.status, DistanceLabel, r.message)
           /\ pc' = AfterStep(r.status, "cost")
    /\ UNCHANGED <<request, fetched, specs, venue_lat, venue_lon, venue_country,
                   ret, frame, http>>

\* Step 8: process_total_cost, with its default method, and the return
Step8_TotalCost ==
    /\ pc = "cost"
    /\ LET m == config.METHOD_RANGE_PARSING
           r == process_total_cost(cart_value, distance, order_minimum_no_surcharge,
                                   base_price_delivery_fee, distance_ranges_dict, m)
       IN  /\ ret' = [ret EXCEPT ![m] = r.ret]
           /\ frame' = [frame EXCEPT ![m] = r.frame]
           /\ executed' = Append(executed, Ran("cost", r.ret.status))
           /\ order_ret' = IF r.ret.status = FAILURE
                           THEN OrderFailure(CostLabel, r.ret.message)
                           ELSE OrderSuccess(r.ret.response)
           /\ pc' = AfterStep(r.ret.status, "returned")
           /\ distance_ranges_dict' =
                  CallerList(distance_ranges_dict, r.frame.distance_ranges_dict)
    /\ UNCHANGED <<request, fetched, order_minimum_no_surcharge, base_price_delivery_fee,
                   venue_lat, venue_lon, venue_country, distance, dist_ret, http>>

\* get_delivery_order_price answers the request
Endpoint ==
    /\ pc = "returned"
    /\ http' = get_delivery_order_price(order_ret)
    /\ pc' = "answered"
    /\ UNCHANGED <<request, fetched, specs, venue_lat, venue_lon, venue_country,
                   distance, dist_ret, ret, frame, executed, order_ret>>

NextOrder ==
    \/ ValidateInputs
    \/ Step1_VenueSlug
    \/ Step2_ApiLinks
    \/ Step3_FetchStatic
    \/ Step4_FetchDynamic
    \/ Step5_Coordinates
    \/ Step6_DeliverySpecs
    \/ Step7_Distance
    \/ Step8_TotalCost
    \/ Endpoint

\* one request to the endpoint
SpecOrder == InitOrder /\ [][NextOrder]_allVars

----------------------------------------------------------------------------
(* Vocabulary of the properties *)

\* the sorted list of the request's schedule
Sorted == SortedRanges(distance_ranges_dict)

TypeOK ==
    /\ \A m \in Methods : ret[m].status \in {0, SUCCESS, FAILURE}
    /\ \A m \in Methods : Returned(m) => frame[m].index \in 0..Len(distance_ranges_dict)

\* the tiers of the request's schedule, whatever their order
Tiers == {distance_ranges_dict[i] : i \in DOMAIN distance_ranges_dict}

FiniteTiers == {t \in Tiers : t.max # 0}

SentinelTiers == {t \in Tiers : t.max = 0}

\* the data-model invariant of a fee schedule: finite tiers that start at 0
\* and continue each other, and one max = 0 sentinel that continues the last
WellFormed ==
    /\ Cardinality(Tiers) = Len(distance_ranges_dict)
    /\ Cardinality(SentinelTiers) = 1
    /\ FiniteTiers # {}
    /\ \A t \in FiniteTiers : 0 <= t.min /\ t.min < t.max
    /\ Cardinality({t \in Tiers : t.min = 0}) = 1
    /\ \A t \in Tiers : t.min # 0 =>
           Cardinality({u \in FiniteTiers : u.max = t.min}) = 1
    /\ \A t \in FiniteTiers : \A u \in FiniteTiers : t.max = u.max => t = u
    /\ \A t \in FiniteTiers : \A u \in Tiers : t.min = u.min => t = u

\* every finite max is at most x
AllFiniteMaxAtMost(x) == \A t \in FiniteTiers : t.max <= x

\* the largest finite max is at least d
WithinLargestMax(d) == \E t \in FiniteTiers : d <= t.max

\* t is the first tier in ascending order of max that d does not exceed
FirstNotExceeded(t, d) ==
    /\ t \in FiniteTiers
    /\ d <= t.max
    /\ \A u \in FiniteTiers : d <= u.max => t.max <= u.max

\* the call with method m read a and b from tier t and succeeded
ResolvedTo(m, t) ==
    /\ ret[m].status = SUCCESS
    /\ frame[m].a = t.a
    /\ frame[m].b = t.b

----------------------------------------------------------------------------
(* Properties *)

\* C1: on a well-formed schedule and a distance up to its largest max, the
\* linear, table and binary-search calls return the same triple and read
\* the same (a, b).
C1_StrategiesAgree ==
    (/\ WellFormed
     /\ WithinLargestMax(distance)
     /\ \A m \in Strategies : Returned(m))
    => \A m1 \in Strategies : \A m2 \in Strategies :
          /\ ret[m1] = ret[m2]
          /\ frame[m1].a = frame[m2].a
          /\ frame[m1].b = frame[m2].b

\* C2: the binary-search call resolves a distance up to the largest finite
\* max to the first tier, in ascending order of max, whose max is >= the
\* distance; on the test schedule, 1200 metres resolve to {1000,1500,200,0}
\* and the fee is 200 + the base fee.
C2_BinaryResolvesFirstNotExceeded ==
    (/\ WellFormed
     /\ WithinLargestMax(distance)
     /\ Returned(O_Log_n))
    => /\ \E t \in FiniteTiers : FirstNotExceeded(t, distance) /\ ResolvedTo(O_Log_n, t)
       /\ (distance_ranges_dict = TestSchedule /\ distance = 1200)
          => /\ ResolvedTo(O_Log_n, Tier(1000, 1500, 200, 0))
             /\ ret[O_Log_n].response.delivery.fee = 200 + base_price_delivery_fee

\* C3: a distance equal to the max of a finite tier resolves to that tier,
\* under each of the three strategies.
C3_UpperBoundaryInclusive ==
    \A m \in Strategies : \A t \in FiniteTiers :
        (WellFormed /\ distance = t.max /\ Returned(m)) => ResolvedTo(m, t)

\* C4: a distance equal to the min of a finite tier resolves to that tier,
\* under each of the three strategies.
C4_LowerBoundaryInclusive ==
    \A m \in Strategies : \A t \in FiniteTiers :
        (WellFormed /\ distance = t.min /\ Returned(m)) => ResolvedTo(m, t)

\* C5: a distance of 0 gives SUCCESS with the (a, b) of the tier whose min
\* is 0, under each of the three strategies.
C5_ZeroDistanceFirstTier ==
    \A m \in Strategies : \A t \in FiniteTiers :
        (WellFormed /\ distance = 0 /\ t.min = 0 /\ Returned(m)) => ResolvedTo(m, t)

\* C6: no call returns SUCCESS having read a and b from the max = 0
\* sentinel tier.
C6_SentinelNeverMatches ==
    \A m \in Strategies :
        (Returned(m) /\ ret[m].status = SUCCESS /\ frame[m].index # 0)
        => frame[m].distance_ranges_dict[frame[m].index].max # 0

\* C7: with the sentinel in the schedule, a distance greater than every
\* finite max gives FAILURE, the empty response and a message that contains
\* "Delivery is not possible", under each of the three strategies.
C7_BeyondEveryMaxFails ==
    \A m \in Strategies :
        (/\ SentinelTiers # {}
         /\ AllFiniteMaxAtMost(distance - 1)
         /\ Returned(m))
        => /\ ret[m].status = FAILURE
           /\ ret[m].response = EmptyDict
           /\ ret[m].message.text = DeliveryErrorText

\* C8: the list a call searches holds the tiers of the input with the
\* non-sentinel tiers ascending by max and the max = 0 tier last, wherever
\* the sentinel stood in the input.
C8_SearchedListOrdered ==
    \A m \in Methods :
        Returned(m) =>
            LET s == frame[m].distance_ranges_dict
            IN  /\ Len(s) = Len(distance_ranges_dict)
                /\ {s[i] : i \in DOMAIN s} = Tiers
                /\ \A i \in DOMAIN s : \A j \in DOMAIN s :
                       i < j => \/ s[j].max = 0
                                \/ (s[i].max # 0 /\ s[i].max <= s[j].max)

\* a call has searched a list whose sentinel came first in the input
C8_Witness ==
    /\ Len(distance_ranges_dict) >= 3
    /\ distance_ranges_dict[1].max = 0
    /\ distance_ranges_dict[2].max > distance_ranges_dict[3].max
    /\ Returned(O_Log_n)
    /\ frame[O_Log_n].distance_ranges_dict[3].max = 0

\* C9: in every SUCCESS response small_order_surcharge is
\* max(0, order_minimum_no_surcharge - cart_value): the shortfall of the
\* cart below the minimum, and 0 when the cart reaches the minimum.
C9_SmallOrderSurcharge ==
    \A m \in Methods :
        ret[m].status = SUCCESS =>
            LET surcharge == ret[m].response.small_order_surcharge
            IN  /\ cart_value >= order_minimum_no_surcharge => surcharge = 0
                /\ cart_value < order_minimum_no_surcharge
                   => surcharge = order_minimum_no_surcharge - cart_value

\* a successful call on a cart below the minimum, which is surcharged
C9_Witness ==
    /\ cart_value < order_minimum_no_surcharge
    /\ ret[O_n].status = SUCCESS
    /\ ret[O_n].response.small_order_surcharge > 0

\* C10: in every SUCCESS response delivery.fee is
\* a + (b * distance) / 10 + base_price_delivery_fee with the fraction
\* dropped, a and b being those of the tier the call resolved.
C10_FeeTruncated ==
    \A m \in Methods :
        ret[m].status = SUCCESS =>
            LET fee   == ret[m].response.delivery.fee
                fee10 == 10 * frame[m].a + frame[m].b * distance
                         + 10 * base_price_delivery_fee
                i     == frame[m].index
            IN  /\ 10 * fee <= fee10
                /\ fee10 < 10 * fee + 10
                /\ i # 0 => /\ frame[m].a = frame[m].distance_ranges_dict[i].a
                            /\ frame[m].b = frame[m].distance_ranges_dict[i].b

\* a successful call whose fee had a fraction of at least one half
C10_Witness ==
    /\ ret[O_n].status = SUCCESS
    /\ frame[O_n].index # 0
    /\ (frame[O_n].b * distance) % 10 >= 5

\* the untruncated delivery fee of the call with method m, in tenths
DeliveryFee10(m) ==
    10 * frame[m].a + frame[m].b * distance + 10 * base_price_delivery_fee

\* C11: in every SUCCESS response total_price is cart_value +
\* small_order_surcharge + the untruncated delivery fee, with the fraction
\* dropped.
C11_TotalPriceSum ==
    \A m \in Methods :
        ret[m].status = SUCCESS =>
            LET total   == ret[m].response.total_price
                total10 == 10 * cart_value
                           + 10 * ret[m].response.small_order_surcharge
                           + DeliveryFee10(m)
            IN  /\ 10 * total <= total10
                /\ total10 < 10 * total + 10

\* a successful call with a surcharge and a fee that has a fraction
C11_Witness ==
    /\ ret[O_1].status = SUCCESS
    /\ ret[O_1].response.small_order_surcharge > 0
    /\ DeliveryFee10(O_1) % 10 # 0
    /\ ret[O_1].response.total_price > cart_value + ret[O_1].response.small_order_surcharge

\* the arguments and every tier's a and b are non-negative
NonNegativeInputs ==
    /\ cart_value >= 0
    /\ order_minimum_no_surcharge >= 0
    /\ base_price_delivery_fee >= 0
    /\ distance >= 0
    /\ \A t \in Tiers : t.a >= 0 /\ t.b >= 0

\* C12: with non-negative arguments and non-negative a and b in every tier,
\* no SUCCESS response has a negative total_price, and total_price is at
\* least cart_value.
C12_TotalPriceNonNegative ==
    \A m \in Methods :
        (NonNegativeInputs /\ ret[m].status = SUCCESS) =>
            /\ ret[m].response.total_price >= 0
            /\ ret[m].response.total_price >= cart_value

\* a successful call on a positive cart with a positive fee
C12_Witness ==
    /\ NonNegativeInputs
    /\ cart_value > 0
    /\ ret[O_Log_n].status = SUCCESS
    /\ ret[O_Log_n].response.delivery.fee > 0
    /\ ret[O_Log_n].response.total_price > cart_value

\* the schedule is empty or one of its tiers lacks a required field
Malformed ==
    \/ distance_ranges_dict = <<>>
    \/ \E i \in DOMAIN distance_ranges_dict :
           \E k \in Fields : ~HasKey(distance_ranges_dict[i], k)

\* C16: on a schedule that is empty or has a tier without min, max, a or b,
\* every strategy returns FAILURE and the empty response at every distance.
C16_MalformedScheduleFails ==
    \A m \in Strategies :
        (Malformed /\ Returned(m)) =>
            /\ ret[m].status = FAILURE
            /\ ret[m].response = EmptyDict

\* C17: when a call fails because the distance is out of range, the
\* boundary its message quotes ("You should be within N meters") is the
\* largest finite max of the schedule.
C17_MessageQuotesLargestMax ==
    \A m \in Strategies :
        (ret[m].status = FAILURE /\ ret[m].message.text = DeliveryErrorText) =>
            /\ \E t \in FiniteTiers : ret[m].message.within = t.max
            /\ AllFiniteMaxAtMost(ret[m].message.within)

\* calculate_distance has returned or raised
DistanceCalled == dist_ret # NoDistReturn

ValidMethod == calc_method \in {SIMPLE, HAVERSINE}

\* all four coordinates are numbers
NumericCoordinates == ~NonNumeric(user_lat, user_lon, venue_lat, venue_lon)

\* C18: a call with a method other than SIMPLE and HAVERSINE returns
\* (0, FAILURE, "Invalid calculation method ..."), whatever the coordinates
\* are; neither algorithm runs in its place.
C18_InvalidMethodFails ==
    (DistanceCalled /\ ~ValidMethod) =>
        /\ dist_ret.distance = 0
        /\ dist_ret.status = FAILURE
        /\ dist_ret.message = InvalidMethodText
        /\ ~dist_ret.raised

\* a call with method 999 on two distinct points, which either algorithm
\* would place a positive distance apart
C18_Witness ==
    /\ DistanceCalled
    /\ calc_method = InvalidMethod
    /\ NumericCoordinates
    /\ user_lat # venue_lat
    /\ dist_ret.status = FAILURE

\* C19: a call with SIMPLE or HAVERSINE and a coordinate that is not a number
\* returns (0, FAILURE, "An error occurred ..."); no exception reaches the
\* caller.
C19_NonNumericReported ==
    (DistanceCalled /\ ValidMethod /\ ~NumericCoordinates) =>
        /\ dist_ret.distance = 0
        /\ dist_ret.status = FAILURE
        /\ dist_ret.message = CalcErrorText
        /\ ~dist_ret.raised

\* a HAVERSINE call whose user latitude alone is not a number
C19_Witness ==
    /\ DistanceCalled
    /\ calc_method = HAVERSINE
    /\ user_lat = NotANumber
    /\ ~NonNumeric(user_lon, user_lon, venue_lat, venue_lon)
    /\ dist_ret.status = FAILURE

\* C20: the distance from a point to itself is 0, with SUCCESS, under both
\* methods.
C20_SamePointZero ==
    (/\ DistanceCalled
     /\ ValidMethod
     /\ NumericCoordinates
     /\ user_lat = venue_lat
     /\ user_lon = venue_lon) =>
        /\ dist_ret.distance = 0
        /\ dist_ret.status = SUCCESS

\* a SIMPLE call on the point (0.001, 0.001) twice
C20_Witness ==
    /\ DistanceCalled
    /\ calc_method = SIMPLE
    /\ user_lat = Number(1)
    /\ venue_lat = Number(1)
    /\ user_lon = Number(1)
    /\ venue_lon = Number(1)
    /\ dist_ret.status = SUCCESS

\* the response is the full price breakdown
HasFiveFields(response) ==
    /\ DOMAIN response = {"total_price", "small_order_surcharge", "cart_value", "delivery"}
    /\ DOMAIN response.delivery = {"fee", "distance"}

\* a return triple with FAILURE carries {}, one with SUCCESS all five fields
EmptyOrFull(r) ==
    /\ r.status = FAILURE => r.response = EmptyDict
    /\ r.status = SUCCESS => HasFiveFields(r.response)

\* C13: every FAILURE return of process_total_cost and of
\* delivery_order_price carries the empty response {}, and every SUCCESS
\* return carries total_price, small_order_surcharge, cart_value,
\* delivery.fee and delivery.distance.
C13_FailureEmptySuccessFull ==
    /\ \A m \in Methods : EmptyOrFull(ret[m])
    /\ EmptyOrFull(order_ret)

\* a request on which process_total_cost fails, and delivery_order_price
\* with it
C13_Witness ==
    /\ order_ret.status = FAILURE
    /\ order_ret.message.label = CostLabel
    /\ order_ret.response = EmptyDict
    /\ \E m \in Methods : ret[m].status = FAILURE /\ ret[m].response = EmptyDict

\* C14: when delivery_order_price returns FAILURE (an undeliverable
\* distance or any other failure), the endpoint answers with status 400 and
\* the message; it answers 500 for no return of delivery_order_price.
C14_FailureAnswered400 ==
    pc = "answered" =>
        /\ http.status_code # 500
        /\ order_ret.status = FAILURE =>
               (http.status_code = FAILURE /\ http.detail = order_ret.message)

\* the prefix of the message returned when the step reports FAILURE
StepLabel(step) ==
    CASE step = "validate" -> ""
      [] step = "slug" -> SlugLabel
      [] step = "links" -> LinksLabel
      [] step = "static" -> StaticLabel
      [] step = "dynamic" -> DynamicLabel
      [] step = "coordinates" -> CoordinatesLabel
      [] step = "specs" -> SpecsLabel
      [] step = "distance" -> DistanceLabel
      [] step = "cost" -> CostLabel

\* the steps run so far are the first steps of the fixed order
StepsInOrder ==
    /\ Len(executed) <= Len(StepOrder)
    /\ \A i \in DOMAIN executed : executed[i].step = StepOrder[i]

\* no step has run after one that did not report SUCCESS, and the function
\* has returned when the last one did not
NoStepAfterFailure ==
    /\ \A i \in DOMAIN executed : i < Len(executed) => executed[i].status = SUCCESS
    /\ (executed # <<>> /\ executed[Len(executed)].status # SUCCESS) =>
           pc \in {"returned", "answered"}

\* the last step run reported FAILURE
LastStepFailed == executed # <<>> /\ executed[Len(executed)].status = FAILURE

\* C15, as stated: the steps run in the fixed order, and at the first one
\* that reports FAILURE the function returns ({}, FAILURE, message) with the
\* message prefixed by the label of that step, validation included, and no
\* later step runs.
C15_EveryFailureLabelled ==
    /\ StepsInOrder
    /\ NoStepAfterFailure
    /\ LastStepFailed =>
           /\ order_ret.response = EmptyDict
           /\ order_ret.status = FAILURE
           /\ order_ret.message.label # ""
           /\ order_ret.message.label = StepLabel(executed[Len(executed)].step)

\* C15, amended: the steps run in the fixed order, and at the first one that
\* reports FAILURE the function returns ({}, FAILURE, message) and no later
\* step runs; the message is the validator's own message when validation
\* fails and is prefixed by the label of the step for every later step.
C15_StepsInOrderEarlyReturn ==
    /\ StepsInOrder
    /\ NoStepAfterFailure
    /\ LastStepFailed =>
           /\ order_ret.response = EmptyDict
           /\ order_ret.status = FAILURE
           /\ order_ret.message.label = StepLabel(executed[Len(executed)].step)
           /\ executed[Len(executed)].step # "validate" => order_ret.message.label # ""

\* an unknown venue slug: validation passes, the slug step fails, and
\* nothing has been fetched
C15_Witness ==
    /\ executed = << Ran("validate", SUCCESS), Ran("slug", FAILURE) >>
    /\ order_ret = OrderFailure(SlugLabel, InvalidCityText)
    /\ static_data = EmptyDict
    /\ dynamic_data = EmptyDict
    /\ pc = "answered"

\* the positions in executed at which the step ran
RunsOf(step) == {i \in DOMAIN executed : executed[i].step = step}

\* the steps that read the fetched data: the extractions and the pricing
AfterFetches == {"coordinates", "specs", "distance", "cost"}

\* C21: in one call of delivery_order_price, get_request runs at most once
\* for the static endpoint and at most once for the dynamic one, static
\* before dynamic and both before any extraction or pricing; a failed fetch is
\* not retried, and no dynamic fetch follows a failed static fetch.
C21_FetchedOnceInOrder ==
    /\ Cardinality(RunsOf("static")) <= 1
    /\ Cardinality(RunsOf("dynamic")) <= 1
    /\ \A i \in RunsOf("dynamic") : \E j \in RunsOf("static") : j < i
    /\ \A i \in DOMAIN executed :
           executed[i].step \in AfterFetches =>
               /\ \E j \in RunsOf("static") : j < i /\ executed[j].status = SUCCESS
               /\ \E j \in RunsOf("dynamic") : j < i /\ executed[j].status = SUCCESS
    /\ \A i \in RunsOf("static") \cup RunsOf("dynamic") :
           executed[i].status = FAILURE => i = Len(executed)

\* a request whose static fetch failed: the call has returned and the
\* endpoint has answered without a dynamic fetch
C21_Witness ==
    /\ pc = "answered"
    /\ \E i \in RunsOf("static") : executed[i].status = FAILURE
    /\ RunsOf("dynamic") = {}
    /\ order_ret.message.label = StaticLabel

\* the last step run is a fetch that reported FAILURE
FetchFailed ==
    /\ LastStepFailed
    /\ executed[Len(executed)].step \in {"static", "dynamic"}

C23_ArgumentsUntouched ==
    [][ /\ args' = args
        /\ \A m \in Methods :
               Returned(m)' =>
                   ret'[m] = process_total_cost(cart_value', distance',
                                                order_minimum_no_surcharge',
                                                base_price_delivery_fee',
                                                distance_ranges_dict', m).ret ]_allVars

\* a call has returned SUCCESS on a schedule that is not in sorted order,
\* and another FAILURE on the same schedule
C23_Witness ==
    /\ \E m \in Methods :
           /\ ret[m].status = SUCCESS
           /\ frame[m].distance_ranges_dict # distance_ranges_dict
    /\ \E m \in Methods : ret[m].status = FAILURE

\* C24: with a method that is none of O_n, O_1 and O_Log_n and a schedule of
\* at least two tiers, no lookup is made: the call returns SUCCESS at every
\* distance with a = b = 0, so delivery.fee is base_price_delivery_fee; it
\* reports neither an invalid method nor a distance out of range.
C24_OtherMethodNoLookup ==
    (Returned(OtherMethod) /\ Len(distance_ranges_dict) >= 2) =>
        /\ ret[OtherMethod].status = SUCCESS
        /\ frame[OtherMethod].index = 0
        /\ frame[OtherMethod].a = 0
        /\ frame[OtherMethod].b = 0
        /\ ret[OtherMethod].response.delivery.fee = base_price_delivery_fee

\* a call with another method at a distance beyond every tier, where the
\* three strategies all fail
C24_Witness ==
    /\ Len(distance_ranges_dict) >= 2
    /\ SentinelTiers # {}
    /\ ~WithinLargestMax(distance)
    /\ \A m \in Strategies : ret[m].status = FAILURE
    /\ ret[OtherMethod].status = SUCCESS
    /\ base_price_delivery_fee > 0

\* the schedule has no tier with max = 0
NoSentinel == SentinelTiers = {}

\* C25: on a schedule of at least two tiers without a sentinel, at a
\* distance greater than every max, the linear strategy returns SUCCESS with
\* a = b = 0 (the fee is the base fee), while the table and the
\* binary-search strategies return FAILURE.
C25_LinearRunsOffTheEnd ==
    (Len(distance_ranges_dict) >= 2 /\ NoSentinel /\ ~WithinLargestMax(distance)) =>
        /\ Returned(O_n) =>
               /\ ret[O_n].status = SUCCESS
               /\ frame[O_n].a = 0
               /\ frame[O_n].b = 0
               /\ ret[O_n].response.delivery.fee = base_price_delivery_fee
        /\ Returned(O_1) => ret[O_1].status = FAILURE
        /\ Returned(O_Log_n) => ret[O_Log_n].status = FAILURE

\* the three strategies have run on such a schedule whose tiers carry a
\* positive a
C25_Witness ==
    /\ Len(distance_ranges_dict) >= 2
    /\ NoSentinel
    /\ ~WithinLargestMax(distance)
    /\ \A t \in Tiers : t.a > 0
    /\ ret[O_n].status = SUCCESS
    /\ ret[O_1].status = FAILURE
    /\ ret[O_Log_n].status = FAILURE

\* C26: on a schedule of fewer than two tiers the call returns FAILURE with
\* the empty response, whatever the distance and the method, also at a
\* distance inside the single tier: the out-of-range message is built from
\* the second-to-last tier before any lookup.
C26_FewerThanTwoTiersFails ==
    \A m \in Methods :
        (Returned(m) /\ Len(distance_ranges_dict) < 2) =>
            /\ ret[m].status = FAILURE
            /\ ret[m].response = EmptyDict
            /\ ret[m].message.text = UnexpectedErrorText
            /\ frame[m].index = 0

\* the linear strategy has run on a single finite tier at a distance
\* inside it
C26_Witness ==
    /\ Len(distance_ranges_dict) = 1
    /\ WithinLargestMax(distance)
    /\ ret[O_n].status = FAILURE
    /\ ret[O_n].response = EmptyDict

\* the schedule with its tiers in the order p
Permuted(p) == [i \in DOMAIN distance_ranges_dict |-> distance_ranges_dict[p[i]]]

\* no two tiers have the same max
DistinctMax ==
    \A i \in DOMAIN distance_ranges_dict : \A j \in DOMAIN distance_ranges_dict :
        i # j => distance_ranges_dict[i].max # distance_ranges_dict[j].max

\* status and response of a return triple
StatusAndResponse(r) == <<r.status, r.response>>

\* C27: the result does not depend on the order of the tiers: on a schedule
\* whose max values are pairwise distinct, each strategy returns the same
\* status and response for every permutation of the tiers.
C27_TierOrderIrrelevant ==
    \A m \in Strategies :
        (Returned(m) /\ DistinctMax) =>
            \A p \in Permutations(DOMAIN distance_ranges_dict) :
                StatusAndResponse(process_total_cost(cart_value, distance,
                                                     order_minimum_no_surcharge,
                                                     base_price_delivery_fee,
                                                     Permuted(p), m).ret)
                    = StatusAndResponse(ret[m])

\* the linear strategy has returned SUCCESS with a positive fee on a schedule
\* of three tiers that arrived with the sentinel first
C27_Witness ==
    /\ Len(distance_ranges_dict) = 3
    /\ DistinctMax
    /\ distance_ranges_dict[1].max = 0
    /\ ret[O_n].status = SUCCESS
    /\ ret[O_n].response.delivery.fee > base_price_delivery_fee

\* a, b, the base fee and the distance are non-negative
NonNegativeFee ==
    /\ base_price_delivery_fee >= 0
    /\ distance >= 0
    /\ \A t \in Tiers : t.a >= 0 /\ t.b >= 0

\* the fields of the response of method m add up, and the distance is the
\* one passed in
FieldsAddUp(m) ==
    /\ ret[m].response.total_price =
           ret[m].response.cart_value + ret[m].response.small_order_surcharge
               + ret[m].response.delivery.fee
    /\ ret[m].response.delivery.distance = distance

\* C28, as stated: for an integer cart_value and minimum and a non-negative
\* fee, every SUCCESS response has total_price = cart_value +
\* small_order_surcharge + delivery.fee after truncation, and
\* delivery.distance is the distance passed in.
C28_FieldsConsistent ==
    \A m \in Methods :
        (ret[m].status = SUCCESS /\ NonNegativeFee) => FieldsAddUp(m)

\* C28, amended: the same for a non-negative cart_value.
C28_FieldsConsistentNonNegativeCart ==
    \A m \in Methods :
        (ret[m].status = SUCCESS /\ NonNegativeFee /\ cart_value >= 0) => FieldsAddUp(m)

\* a successful call on a non-negative cart below the minimum, with a fee
\* whose fraction is dropped
C28_Witness ==
    /\ cart_value >= 0
    /\ NonNegativeFee
    /\ ret[O_n].status = SUCCESS
    /\ ret[O_n].response.small_order_surcharge > 0
    /\ DeliveryFee10(O_n) % 10 >= 5
    /\ FieldsAddUp(O_n)

\* max(x, y)
MaxOf(x, y) == IF x >= y THEN x ELSE y

\* C29: in every SUCCESS response cart_value + small_order_surcharge is
\* max(cart_value, order_minimum_no_surcharge): the surcharge tops the cart
\* up to the minimum and not beyond it, and it is never negative.
C29_SurchargeTopsUp ==
    \A m \in Methods :
        ret[m].status = SUCCESS =>
            /\ ret[m].response.cart_value + ret[m].response.small_order_surcharge
                   = MaxOf(cart_value, order_minimum_no_surcharge)
            /\ ret[m].response.small_order_surcharge >= 0

\* two successful calls: a negative cart topped up to the minimum, and a
\* cart above a negative minimum without a surcharge
C29_Witness ==
    /\ ret[O_n].status = SUCCESS
    /\ ret[O_1].status = SUCCESS
    /\ \/ /\ cart_value < 0
          /\ order_minimum_no_surcharge > 0
          /\ ret[O_n].response.small_order_surcharge = order_minimum_no_surcharge - cart_value
       \/ /\ order_minimum_no_surcharge < 0
          /\ cart_value > order_minimum_no_surcharge
          /\ ret[O_n].response.small_order_surcharge = 0

====
